---- MODULE Spec2Model ----
(***************************************************************************)
(* SpendWise: the merchant categorization pipeline.                        *)
(*                                                                         *)
(*   src/categorize.py  MerchantCategorizer (the merchant -> category      *)
(*                      memory kept in data/merchant_map.csv) and          *)
(*                      OnlineGuesser (OpenStreetMap + Wikipedia hints)    *)
(*   src/app.py         the Streamlit script: one top-to-bottom run per    *)
(*                      user interaction                                   *)
(*                                                                         *)
(* The characters of a Python str are the space, the digits and the ASCII  *)
(* letters.  The string operations are computed on sequences of            *)
(* characters; the state holds every text by name, and Spelling gives the  *)
(* characters of each name.                                                *)
(***************************************************************************)
EXTENDS Integers, Sequences, FiniteSets, TLC

None == "None"

Max2(a, b) == IF a >= b THEN a ELSE b

\* a function given by its graph, its values computed once
Tabulated(f) == f @@ <<>>

(***************************************************************************)
(* Characters, in code point order (space < digits < upper < lower).       *)
(***************************************************************************)
Digits == <<"0", "1", "2", "3", "4", "5", "6", "7", "8", "9">>

UpperLetters ==
    <<"A", "B", "C", "D", "E", "F", "G", "H", "I", "J", "K", "L", "M",
      "N", "O", "P", "Q", "R", "S", "T", "U", "V", "W", "X", "Y", "Z">>

LowerLetters ==
    <<"a", "b", "c", "d", "e", "f", "g", "h", "i", "j", "k", "l", "m",
      "n", "o", "p", "q", "r", "s", "t", "u", "v", "w", "x", "y", "z">>

CodePoints == <<" ">> \o Digits \o UpperLetters \o LowerLetters

Ord(c) == CHOOSE i \in 1..Len(CodePoints) : CodePoints[i] = c

IsSpace(c) == c = " "

IsDigit(c) == \E i \in 1..Len(Digits) : Digits[i] = c

\* str.upper() on one character
UpperChar(c) ==
    IF \E i \in 1..Len(LowerLetters) : LowerLetters[i] = c
    THEN UpperLetters[CHOOSE i \in 1..Len(LowerLetters) : LowerLetters[i] = c]
    ELSE c

\* str.lower() on one character
LowerChar(c) ==
    IF \E i \in 1..Len(UpperLetters) : UpperLetters[i] = c
    THEN LowerLetters[CHOOSE i \in 1..Len(UpperLetters) : UpperLetters[i] = c]
    ELSE c

Upper(s) == [i \in 1..Len(s) |-> UpperChar(s[i])]

Lower(s) == [i \in 1..Len(s) |-> LowerChar(s[i])]

RECURSIVE LStrip(_)
LStrip(s) == IF s # <<>> /\ IsSpace(Head(s)) THEN LStrip(Tail(s)) ELSE s

RECURSIVE RStrip(_)
RStrip(s) ==
    IF s # <<>> /\ IsSpace(s[Len(s)]) THEN RStrip(SubSeq(s, 1, Len(s) - 1)) ELSE s

\* str.strip()
Strip(s) == RStrip(LStrip(s))

\* str(x).upper().strip()
UpperStrip(s) == Strip(Upper(s))

(***************************************************************************)
(* fuzz.token_set_ratio, the scorer handed to process.extractOne.          *)
(***************************************************************************)
\* utils.full_process: non-alphanumerics to spaces, lower case, strip
FullProcess(s) == Strip(Lower(s))

\* str.split(): the maximal runs of non-space characters
RECURSIVE SplitFrom(_, _)
SplitFrom(s, cur) ==
    IF s = <<>> THEN (IF cur = <<>> THEN {} ELSE {cur})
    ELSE IF IsSpace(Head(s))
         THEN (IF cur = <<>> THEN {} ELSE {cur}) \cup SplitFrom(Tail(s), <<>>)
         ELSE SplitFrom(Tail(s), Append(cur, Head(s)))

Tokens(s) == SplitFrom(s, <<>>)

\* s < t in Python's string order
RECURSIVE StrLess(_, _)
StrLess(s, t) ==
    IF t = <<>> THEN FALSE
    ELSE IF s = <<>> THEN TRUE
    ELSE IF Head(s) = Head(t) THEN StrLess(Tail(s), Tail(t))
    ELSE Ord(Head(s)) < Ord(Head(t))

\* " ".join(sorted(tokens))
RECURSIVE JoinSorted(_)
Smallest(toks) == CHOOSE t \in toks : \A u \in toks \ {t} : StrLess(t, u)

Join(first, rest) == IF rest = <<>> THEN first ELSE first \o <<" ">> \o rest

JoinFrom(first, toks) == Join(first, JoinSorted(toks \ {first}))

JoinSorted(toks) == IF toks = {} THEN <<>> ELSE JoinFrom(Smallest(toks), toks)

\* one row of the longest-common-subsequence table
RECURSIVE LcsRow(_, _, _, _)
LcsRow(prev, c, b, cur) ==
    IF Len(cur) = Len(b) + 1 THEN cur
    ELSE LET j == Len(cur)
             v == IF c = b[j] THEN prev[j] + 1
                  ELSE Max2(prev[j + 1], cur[j])
         IN  LcsRow(prev, c, b, Append(cur, v))

RECURSIVE LcsRows(_, _, _)
LcsRows(a, b, prev) ==
    IF a = <<>> THEN prev[Len(b) + 1]
    ELSE LcsRows(Tail(a), b, LcsRow(prev, Head(a), b, <<0>>))

\* the number of matched characters SequenceMatcher reports
Matches(a, b) == LcsRows(a, b, [j \in 1..(Len(b) + 1) |-> 0])

\* int(round(100 * 2 * m / t)): Python rounds halves to even
RoundPercent(m, t) ==
    LET q == (200 * m) \div t
        r == (200 * m) % t
    IN  IF 2 * r > t THEN q + 1
        ELSE IF 2 * r < t THEN q
        ELSE IF q % 2 = 0 THEN q ELSE q + 1

\* fuzz.ratio
Ratio(a, b) ==
    IF a = b THEN 100
    ELSE IF a = <<>> \/ b = <<>> THEN 0
    ELSE RoundPercent(Matches(a, b), Len(a) + Len(b))

\* max of the three pairwise ratios of the sorted intersection and the two
\* combined strings
PairwiseMax(sect, c12, c21) ==
    Max2(Ratio(sect, c12), Max2(Ratio(sect, c21), Ratio(c12, c21)))

\* combined_1to2 and combined_2to1, stripped
Combined(sect, diff12, diff21) ==
    PairwiseMax(sect, Strip(sect \o <<" ">> \o diff12),
                      Strip(sect \o <<" ">> \o diff21))

\* the sorted intersection and the sorted differences of the token sets
TokenSets(t1, t2) ==
    Combined(JoinSorted(t1 \cap t2), JoinSorted(t1 \ t2), JoinSorted(t2 \ t1))

Processed(p1, p2) ==
    IF p1 = <<>> \/ p2 = <<>> THEN 0 ELSE TokenSets(Tokens(p1), Tokens(p2))

\* fuzz.token_set_ratio
TokenSetRatio(s1, s2) == Processed(FullProcess(s1), FullProcess(s2))

(***************************************************************************)
(* The values of the model.                                                *)
(***************************************************************************)
\* the texts of the model and their characters
Spelling ==
    ("uber" :> <<"u", "b", "e", "r">>) @@
    (" Uber " :> <<" ", "U", "b", "e", "r", " ">>) @@
    ("Uber" :> <<"U", "b", "e", "r">>) @@
    ("uber eats" :> <<"u", "b", "e", "r", " ", "e", "a", "t", "s">>) @@
    ("ubers" :> <<"u", "b", "e", "r", "s">>) @@
    ("uber bv" :> <<"u", "b", "e", "r", " ", "b", "v">>) @@
    ("07" :> <<"0", "7">>) @@
    ("7" :> <<"7">>) @@
    ("UBER" :> <<"U", "B", "E", "R">>) @@
    ("UBER EATS" :> <<"U", "B", "E", "R", " ", "E", "A", "T", "S">>) @@
    ("UBERS" :> <<"U", "B", "E", "R", "S">>) @@
    ("UBER BV" :> <<"U", "B", "E", "R", " ", "B", "V">>)

Texts == DOMAIN Spelling

\* the text with these characters
Text(chars) == CHOOSE t \in Texts : Spelling[t] = chars

\* merchant descriptions: the arguments of learn and get_category
Merchants == {"uber", " Uber ", "uber eats", "ubers", "uber bv", "07", "7"}

\* DEFAULT_CATEGORIES
DEFAULT_CATEGORIES ==
    <<"Food & Drink", "Groceries", "Transport", "Shopping", "Travel",
      "Entertainment", "Bills & Utilities", "Health", "Education",
      "Income", "Other">>

\* the categories a caller of learn picks from in the model
LearnCategories == {"Food & Drink", "Transport"}

\* the most records the memory holds in the model
MaxRecords == 2

(***************************************************************************)
(* The durable store: data/merchant_map.csv, read and written by pandas.   *)
(* A file is its data rows; a row is its two fields as text.               *)
(***************************************************************************)
NoFile == [exists |-> FALSE, rows |-> <<>>]

File(rows) == [exists |-> TRUE, rows |-> rows]

\* a file at map_path that pd.read_csv cannot parse
Malformed == [exists |-> TRUE, rows |-> <<>>, parses |-> FALSE]

\* a field that pandas parses as an integer
IsIntLiteral(s) == s # <<>> /\ \A i \in 1..Len(s) : IsDigit(s[i])

\* str(int(s)): the decimal digits without leading zeros
RECURSIVE IntStr(_)
IntStr(s) == IF Len(s) > 1 /\ Head(s) = "0" THEN IntStr(Tail(s)) ELSE s

\* a field read as int64 and turned back into a str; None when it is no integer
IntTable ==
    Tabulated([t \in Texts |->
        IF IsIntLiteral(Spelling[t]) THEN Text(IntStr(Spelling[t])) ELSE None])

\* one column of pd.read_csv, followed by astype(str): a column whose fields
\* are all integers is read as int64, any other column of these characters
\* as text
ReadColumn(fields) ==
    IF fields # <<>> /\ \A i \in 1..Len(fields) : IntTable[fields[i]] # None
    THEN [i \in 1..Len(fields) |-> IntTable[fields[i]]]
    ELSE fields

\* pd.read_csv(map_path): the categories are text and are read as written
ReadCsv(rows) ==
    LET merchant == ReadColumn([i \in 1..Len(rows) |-> rows[i].merchant])
    IN  [i \in 1..Len(rows) |->
            [merchant |-> merchant[i], category |-> rows[i].category]]

\* DataFrame.to_csv(index=False) of the columns merchant and category
ToCsv(df) ==
    [i \in 1..Len(df) |-> [merchant |-> df[i].merchant, category |-> df[i].category]]

(***************************************************************************)
(* MerchantCategorizer                                                     *)
(***************************************************************************)
NormTable == Tabulated([t \in Texts |-> Text(UpperStrip(Spelling[t]))])

\* str(x).upper().strip(): the merchant key
NormKey(t) == NormTable[t]

Keys == {NormKey(t) : t \in Texts}

ScoreTable ==
    Tabulated([q \in Keys |->
        Tabulated([c \in Keys |-> TokenSetRatio(Spelling[q], Spelling[c])])])

\* fuzz.token_set_ratio(query, choice)
Score(query, choice) == ScoreTable[query][choice]

\* lines 45-48: the frame with its merchant_norm column
WithNorm(read) ==
    [i \in 1..Len(read) |->
        [merchant |-> read[i].merchant,
         category |-> read[i].category,
         merchant_norm |-> NormKey(read[i].merchant)]]

\* _load_map that starts afresh when the file cannot be read
LoadMapOrReset(file) ==
    IF file = Malformed \/ ~file.exists
    THEN [df |-> <<>>, file |-> File(<<>>), raised |-> FALSE]
    ELSE [df |-> WithNorm(ReadCsv(file.rows)), file |-> file, raised |-> FALSE]

\* the frame _load_map builds from the file, the file it leaves behind, and
\* whether the exception of pd.read_csv leaves it
LoadMap(file) ==
    IF file = Malformed THEN [df |-> <<>>, file |-> file, raised |-> TRUE]
    ELSE IF file.exists
    THEN [df |-> WithNorm(ReadCsv(file.rows)), file |-> file, raised |-> FALSE]
    ELSE [df |-> <<>>, file |-> File(<<>>), raised |-> FALSE]

\* save()
Save(df) == File(ToCsv(df))

KeyExists(df, key) == \E i \in 1..Len(df) : df[i].merchant_norm = key

\* learn(merchant_raw, category): the frame afterwards (save() follows)
Learn(df, merchant_raw, category) ==
    LET merchant_norm == NormKey(merchant_raw)
    IN  IF KeyExists(df, merchant_norm)
        THEN [i \in 1..Len(df) |->
                 IF df[i].merchant_norm = merchant_norm
                 THEN [df[i] EXCEPT !.category = category]
                 ELSE df[i]]
        ELSE Append(df, [merchant |-> merchant_raw,
                         category |-> category,
                         merchant_norm |-> merchant_norm])

Threshold == 85

\* the scores of the choices, in order
Scores(query, choices) == [i \in 1..Len(choices) |-> Score(query, choices[i])]

\* the last choice with the highest score
LastMax(choices, score) ==
    LET best == CHOOSE i \in 1..Len(choices) :
                    /\ \A j \in 1..Len(choices) : score[j] <= score[i]
                    /\ \A j \in (i + 1)..Len(choices) : score[j] < score[i]
    IN  [match |-> choices[best], score |-> score[best]]

\* max(..., key=score): the first choice with the highest score
FirstMax(choices, score) ==
    LET best == CHOOSE i \in 1..Len(choices) :
                    /\ \A j \in 1..Len(choices) : score[j] <= score[i]
                    /\ \A j \in 1..(i - 1) : score[j] < score[i]
    IN  [match |-> choices[best], score |-> score[best]]

\* extractOne taking the first choice that reaches the threshold
ExtractFirstAbove(query, choices) ==
    LET score == Scores(query, choices)
        best == IF \E i \in 1..Len(choices) : score[i] >= Threshold
                THEN CHOOSE i \in 1..Len(choices) :
                         /\ score[i] >= Threshold
                         /\ \A j \in 1..(i - 1) : score[j] < Threshold
                ELSE 1
    IN  [match |-> choices[best], score |-> score[best]]

\* process.extractOne(query, choices, scorer=fuzz.token_set_ratio)
ExtractOne(query, choices) == FirstMax(choices, Scores(query, choices))

\* line 57: choices = self.map_df["merchant_norm"].tolist()
Choices(df) == [i \in 1..Len(df) |-> df[i].merchant_norm]

\* line 59: (match, score) if score >= threshold else (None, score)
AboveThreshold(one, scored) ==
    IF one.score >= Threshold
    THEN [match |-> one.match, score |-> one.score, scored |-> scored]
    ELSE [match |-> None, score |-> one.score, scored |-> scored]

\* _best_match comparing desc, as given, with the merchant column
BestMatchOnMerchant(df, desc) ==
    IF \E i \in 1..Len(df) : df[i].merchant = desc
    THEN [match |-> (CHOOSE r \in {df[i] : i \in 1..Len(df)} :
                         r.merchant = desc).merchant_norm,
          score |-> 100, scored |-> Len(df)]
    ELSE [match |-> None, score |-> 0, scored |-> Len(df)]

\* _best_match(desc): (match, score), and how many choices were scored
BestMatch(df, desc) ==
    IF Len(df) = 0 THEN [match |-> None, score |-> 0, scored |-> 0]
    ELSE AboveThreshold(ExtractOne(NormKey(desc), Choices(df)), Len(df))

\* line 65: the category of the first row whose merchant_norm is the match
FirstRowCategory(df, match) ==
    IF match = None THEN None
    ELSE df[CHOOSE i \in 1..Len(df) :
                /\ df[i].merchant_norm = match
                /\ \A j \in 1..(i - 1) : df[j].merchant_norm # match].category

\* get_category(description)
GetCategory(df, description) ==
    FirstRowCategory(df, BestMatch(df, description).match)

(***************************************************************************)
(* OnlineGuesser.  A hint text is the sequence of its words, lower-cased;  *)
(* a pattern \b(w1|w2|...)\b matches when one of its alternatives is a run *)
(* of consecutive words of the text.                                       *)
(***************************************************************************)
KEYWORDS_TO_CATEGORY ==
    << [pat |-> {<<"supermarket">>, <<"grocery">>, <<"grocer">>, <<"market">>},
        cat |-> "Groceries"],
       [pat |-> {<<"cafe">>, <<"coffee">>, <<"restaurant">>, <<"bar">>, <<"pub">>,
                 <<"pizza">>, <<"burger">>, <<"kitchen">>, <<"bakery">>},
        cat |-> "Food & Drink"],
       [pat |-> {<<"uber">>, <<"lyft">>, <<"taxi">>, <<"ride", "hail">>, <<"ridehail">>,
                 <<"cab">>, <<"metro">>, <<"subway">>, <<"train">>, <<"bus">>,
                 <<"transit">>, <<"fuel">>, <<"gas", "station">>},
        cat |-> "Transport"],
       [pat |-> {<<"pharmacy">>, <<"drugstore">>, <<"clinic">>, <<"dental">>,
                 <<"optical">>, <<"health">>, <<"wellness">>},
        cat |-> "Health"],
       [pat |-> {<<"hotel">>, <<"airline">>, <<"airlines">>, <<"flight">>, <<"airways">>,
                 <<"hostel">>, <<"bnb">>, <<"booking">>, <<"travel">>, <<"tour">>,
                 <<"resort">>},
        cat |-> "Travel"],
       [pat |-> {<<"cinema">>, <<"theater">>, <<"theatre">>, <<"movie">>, <<"concert">>,
                 <<"museum">>, <<"park">>, <<"stadium">>, <<"ticket">>},
        cat |-> "Entertainment"],
       [pat |-> {<<"utility">>, <<"electric">>, <<"water">>, <<"gas", "bill">>,
                 <<"internet">>, <<"broadband">>, <<"mobile">>, <<"cellular">>,
                 <<"phone">>},
        cat |-> "Bills & Utilities"],
       [pat |-> {<<"college">>, <<"university">>, <<"tuition">>, <<"course">>,
                 <<"class">>, <<"learning">>, <<"education">>, <<"school">>},
        cat |-> "Education"],
       [pat |-> {<<"amazon">>, <<"target">>, <<"walmart">>, <<"costco">>, <<"mall">>,
                 <<"boutique">>, <<"store">>, <<"retail">>, <<"shop">>, <<"outlet">>},
        cat |-> "Shopping"] >>

\* pat.search(text)
Search(pat, text) ==
    \E w \in pat : \E i \in 1..Len(text) :
        /\ i + Len(w) - 1 <= Len(text)
        /\ SubSeq(text, i, i + Len(w) - 1) = w

\* the loop from rule r on
RECURSIVE ScanRules(_, _)
ScanRules(text, r) ==
    IF r > Len(KEYWORDS_TO_CATEGORY) THEN None
    ELSE IF Search(KEYWORDS_TO_CATEGORY[r].pat, text) THEN KEYWORDS_TO_CATEGORY[r].cat
    ELSE ScanRules(text, r + 1)

\* the loop going on after a match: the category of the last rule that matches
RECURSIVE ScanRulesOn(_, _, _)
ScanRulesOn(text, r, found) ==
    IF r > Len(KEYWORDS_TO_CATEGORY) THEN found
    ELSE IF Search(KEYWORDS_TO_CATEGORY[r].pat, text)
    THEN ScanRulesOn(text, r + 1, KEYWORDS_TO_CATEGORY[r].cat)
    ELSE ScanRulesOn(text, r + 1, found)

ClassifyLast(text) == ScanRulesOn(text, 1, None)

\* for pat, cat in KEYWORDS_TO_CATEGORY: if pat.search(text): return cat
Classify(text) == ScanRules(text, 1)

\* the words of the texts of the model
Words ==
    {"acme", "ltd", "pizza", "place", "pharmacy", "restaurant", "gas", "station"}

\* the most words a text has in the model
MaxWords == 2

\* the texts the rule scan is applied to in the model
ScanTexts == UNION {[1..n -> Words] : n \in 1..MaxWords}

\* the texts the external sources answer with in the script runs of the model
HintTexts ==
    { <<"acme", "ltd">>,
      <<"pizza", "place">>,
      <<"pharmacy", "restaurant">> }

ClassifyTable == Tabulated([t \in ScanTexts |-> Classify(t)])

\* the rule scan on a text of the model
Scan(text) == ClassifyTable[text]

\* what one request to a source comes back with
Answer(kind, text) == [kind |-> kind, text |-> text]

OsmFailures == {"timeout", "connection_error", "status_not_200", "empty_list", "invalid_json"}

WikiFailures == {"timeout", "connection_error", "no_results", "page_error"}

OsmAnswers ==
    {Answer(k, <<>>) : k \in OsmFailures} \cup {Answer("ok", t) : t \in HintTexts}

WikiAnswers ==
    {Answer(k, <<>>) : k \in WikiFailures} \cup {Answer("ok", t) : t \in HintTexts}

\* an exception that leaves the function
Raise == "Raise"

\* _from_osm without its try/except
FromOsmUnguarded(answer) ==
    IF answer.kind \in {"timeout", "connection_error", "invalid_json"} THEN Raise
    ELSE IF answer.kind = "status_not_200" THEN None
    ELSE IF answer.kind = "empty_list" THEN None
    ELSE Scan(answer.text)

\* _from_osm(name), given what the request comes back with
FromOsm(answer) ==
    IF answer.kind \in {"timeout", "connection_error", "invalid_json"} THEN None
    ELSE IF answer.kind = "status_not_200" THEN None
    ELSE IF answer.kind = "empty_list" THEN None
    ELSE Scan(answer.text)

\* _from_wikipedia(name), given what the search and the page come back with
FromWikipedia(answer) ==
    IF answer.kind \in {"timeout", "connection_error", "page_error"} THEN None
    ELSE IF answer.kind = "no_results" THEN None
    ELSE Scan(answer.text)

\* the right operand evaluated whatever the left one is
AsksAlways(first) == TRUE

\* line 127, a or b: b is evaluated when a is None (a category is a non-empty
\* str and so is true)
AsksSecond(first) == first = None

(***************************************************************************)
(* State.                                                                  *)
(***************************************************************************)
VARIABLES
    disk,           \* data/merchant_map.csv
    map_df,         \* MerchantCategorizer.map_df
    lastOp,         \* the last call of a process that uses the classes directly
    clean,          \* that process only appended records, and never reloaded
    upload,         \* the description column of the uploaded statement, as text
    enable_online,  \* the sidebar checkbox
    pc,             \* where the script run stands
    df,             \* the working frame of the run
    cursor,         \* the row (step 2) or the expander (manual section) at hand
    unk_df,         \* the expanders of the manual section
    clicked,        \* the "Save mapping" button that fired this run, 0 for none
    new_cat,        \* the value of the selectbox next to that button
    guess,          \* the suggestion of the expander rendered last
    guess_calls,    \* web.guess calls of this run, per merchant
    osm_failed,     \* in a web.guess call gone on to Wikipedia: OpenStreetMap failed
    osm_cat,        \* in such a call: what _from_osm returned
    learned,        \* the mappings saved in this session, per merchant key
    edited,         \* the category column of the table shown and exported last
    confirmed,      \* in a run fired by "Save mapping": the merchant of the
                    \* expander the user clicked in, and the category picked
    saved           \* the arguments of the cat.learn call of this run

memVars == <<disk, map_df, lastOp, clean>>

appVars ==
    <<upload, enable_online, pc, df, cursor, unk_df, clicked, new_cat, guess,
      guess_calls, osm_failed, osm_cat, learned, edited, confirmed, saved>>

vars == <<memVars, appVars>>

Op(op, merchant, category, result, score, scored) ==
    [op |-> op, merchant |-> merchant, category |-> category,
     result |-> result, score |-> score, scored |-> scored]

\* no cat.learn call
NoCall == [merchant |-> None, category |-> None]

InitMemory ==
    /\ disk = LoadMap(NoFile).file
    /\ map_df = LoadMap(NoFile).df
    /\ lastOp = Op("load", None, None, None, 0, 0)
    /\ clean = TRUE

InitApp ==
    /\ upload = <<>>
    /\ enable_online = TRUE
    /\ pc = "idle"
    /\ df = <<>>
    /\ cursor = 0
    /\ unk_df = <<>>
    /\ clicked = 0
    /\ new_cat = None
    /\ guess = None
    /\ guess_calls = [m \in {} |-> 0]
    /\ osm_failed = FALSE
    /\ osm_cat = None
    /\ learned = [k \in {} |-> None]
    /\ edited = <<>>
    /\ confirmed = NoCall
    /\ saved = NoCall

Init == InitMemory /\ InitApp

(***************************************************************************)
(* The MerchantCategorizer used on its own: a process constructs it, calls *)
(* learn and get_category, and may be restarted.                           *)
(***************************************************************************)
\* MerchantCategorizer(map_path) in a new process
Construct ==
    /\ map_df' = LoadMap(disk).df
    /\ disk' = LoadMap(disk).file
    /\ lastOp' = Op(IF LoadMap(disk).raised THEN "load_raised" ELSE "load",
                    None, None, None, 0, 0)
    /\ clean' = FALSE
    /\ UNCHANGED appVars

\* the process has a MerchantCategorizer
Constructed == lastOp.op \in {"load", "learn", "lookup"}

\* between two processes the file at map_path is removed
RemoveFile ==
    /\ disk' = NoFile
    /\ disk' # disk
    /\ map_df' = <<>>
    /\ lastOp' = Op("removed", None, None, None, 0, 0)
    /\ clean' = FALSE
    /\ UNCHANGED appVars

\* between two processes the file at map_path is damaged
DamageFile ==
    /\ disk' = Malformed
    /\ disk' # disk
    /\ map_df' = <<>>
    /\ lastOp' = Op("damaged", None, None, None, 0, 0)
    /\ clean' = FALSE
    /\ UNCHANGED appVars

\* learn(merchant_raw, category)
CallLearn(merchant_raw, category) ==
    /\ Constructed
    /\ KeyExists(map_df, NormKey(merchant_raw)) \/ Len(map_df) < MaxRecords
    /\ map_df' = Learn(map_df, merchant_raw, category)
    /\ disk' = Save(map_df')
    /\ lastOp' = Op("learn", merchant_raw, category, None, 0, 0)
    /\ clean' = (clean /\ ~KeyExists(map_df, NormKey(merchant_raw)))
    /\ UNCHANGED appVars

\* get_category(description)
Returned(description, m) ==
    /\ Constructed
    /\ lastOp' = Op("lookup", description, None,
                    FirstRowCategory(map_df, m.match), m.score, m.scored)
    /\ UNCHANGED <<disk, map_df, clean>>
    /\ UNCHANGED appVars

CallGetCategory(description) == Returned(description, BestMatch(map_df, description))

NextMemory ==
    \/ Construct
    \/ \E m \in Merchants, c \in LearnCategories : CallLearn(m, c)
    \/ \E d \in Merchants : CallGetCategory(d)
    \/ RemoveFile
    \/ DamageFile

SpecMemory == Init /\ [][NextMemory]_vars

(***************************************************************************)
(* The OnlineGuesser used on its own: a process calls _from_osm and        *)
(* _from_wikipedia, and the sources answer with any text of the model.     *)
(***************************************************************************)
\* _from_osm(name)
CallFromOsm(answer) ==
    /\ lastOp' = Op("from_osm", answer.text, answer.kind, FromOsm(answer), 0, 0)
    /\ UNCHANGED <<disk, map_df, clean>>
    /\ UNCHANGED appVars

\* _from_wikipedia(name)
CallFromWikipedia(answer) ==
    /\ lastOp' = Op("from_wikipedia", answer.text, answer.kind, FromWikipedia(answer), 0, 0)
    /\ UNCHANGED <<disk, map_df, clean>>
    /\ UNCHANGED appVars

NextGuesser ==
    \/ \E k \in OsmFailures : CallFromOsm(Answer(k, <<>>))
    \/ \E t \in ScanTexts : CallFromOsm(Answer("ok", t))
    \/ \E k \in WikiFailures : CallFromWikipedia(Answer(k, <<>>))
    \/ \E t \in ScanTexts : CallFromWikipedia(Answer("ok", t))

SpecGuesser == Init /\ [][NextGuesser]_vars

(***************************************************************************)
(* The Streamlit script (src/app.py).  Every interaction of the user runs  *)
(* the script from the top: it constructs the MerchantCategorizer anew,    *)
(* resolves the statement against the saved map (step 1), asks the online  *)
(* guesser row by row (step 2), renders one expander per unknown merchant  *)
(* and ends with the table, the totals and the export.                     *)
(***************************************************************************)
\* the lines a statement is made of in the model
StatementLines == {"uber", "uber eats", "07"}

\* the most rows a statement has in the model
MaxRows == 2

Statements == UNION {[1..n -> StatementLines] : n \in 1..MaxRows}

\* str.strip() on the texts of the model
StripTable == Tabulated([t \in Texts |-> Text(Strip(Spelling[t]))])

\* the sentinel among the options of the selectbox
OptionsWithSentinel == DEFAULT_CATEGORIES \o <<"Other", "Uncategorized">>

\* options = DEFAULT_CATEGORIES + ["Other"]
Options == DEFAULT_CATEGORIES \o <<"Other">>

\* what the user would like to store in the model; the selectbox returns one
\* of its options
UserPicks == {c \in {"Transport", "Uncategorized"} : \E i \in 1..Len(Options) : Options[i] = c}

\* df["merchant"]: df_raw[desc_col].astype(str).str.strip()
Descriptions(column) ==
    LET read == ReadColumn(column)
    IN  [i \in 1..Len(read) |-> StripTable[read[i]]]

\* df after step 1: df["merchant"].apply(lambda m: cat.get_category(m))
Step1(frame, column) ==
    LET merchant == Descriptions(column)
    IN  [i \in 1..Len(merchant) |->
            [merchant |-> merchant[i],
             category |-> GetCategory(frame, merchant[i]),
             memory |-> GetCategory(frame, merchant[i]),
             online |-> "not_called"]]

IsNa(rows) == {i \in 1..Len(rows) : rows[i].category = None}

\* every row after row i, the mask of line 58 left out
NextRow(rows, i) == IF i < Len(rows) THEN i + 1 ELSE 0

\* the rows of unknown_idx after row i, 0 when there is none
NextUnknown(rows, i) ==
    IF \E j \in (i + 1)..Len(rows) : rows[j].memory = None
    THEN CHOOSE j \in (i + 1)..Len(rows) :
             /\ rows[j].memory = None
             /\ \A k \in (i + 1)..(j - 1) : rows[k].memory # None
    ELSE 0

\* df.loc[unknown_mask, ["merchant"]].drop_duplicates().reset_index(drop=True)
RECURSIVE DropDuplicates(_, _, _)
DropDuplicates(rows, i, acc) ==
    IF i > Len(rows) THEN acc
    ELSE IF rows[i].category = None
            /\ \A k \in 1..Len(acc) : acc[k].merchant # rows[i].merchant
         THEN DropDuplicates(rows, i + 1,
                  Append(acc, [merchant |-> rows[i].merchant]))
         ELSE DropDuplicates(rows, i + 1, acc)

UnkDf(rows) == DropDuplicates(rows, 1, <<>>)

\* where the run goes once steps 1 and 2 are over
AfterStep2(rows) == IF IsNa(rows) # {} THEN "manual" ELSE "rest"

\* preselect = options.index(guess) if guess in options else 0
Preselect(g) ==
    IF \E i \in 1..Len(Options) : Options[i] = g
    THEN (CHOOSE i \in 1..Len(Options) :
              Options[i] = g /\ \A j \in 1..(i - 1) : Options[j] # g) - 1
    ELSE 0

\* line 57: if enable_online
Step2Enabled(flag) == flag

\* the gate left out
Ungated(flag) == TRUE

\* line 70: ... if enable_online else None
SuggestionEnabled(flag) == flag

\* the session's mappings by merchant, with the one of m replaced
Remember(mappings, m, category) ==
    [x \in {y \in DOMAIN mappings : NormKey(y) # NormKey(m)} \cup {m} |->
        IF x = m THEN category ELSE mappings[x]]

\* lines 20-54 and 56-59: the top of the script, up to the end of step 1
RunTop(column) ==
    /\ map_df' = LoadMap(disk).df
    /\ disk' = LoadMap(disk).file
    /\ upload' = column
    /\ guess' = None
    /\ osm_failed' = FALSE
    /\ osm_cat' = None
    /\ edited' = <<>>
    /\ saved' = NoCall
    /\ IF column = <<>>
       THEN /\ pc' = "idle"
            /\ df' = <<>>
            /\ cursor' = 0
            /\ unk_df' = <<>>
            /\ guess_calls' = [m \in {} |-> 0]
       ELSE LET rows == Step1(map_df', column)
            IN  /\ df' = rows
                /\ guess_calls' = [m \in {rows[i].merchant : i \in 1..Len(rows)} |-> 0]
                /\ IF Step2Enabled(enable_online') /\ IsNa(rows) # {}
                   THEN /\ pc' = "online"
                        /\ cursor' = NextUnknown(rows, 0)
                        /\ unk_df' = <<>>
                   ELSE /\ pc' = AfterStep2(rows)
                        /\ cursor' = 1
                        /\ unk_df' = UnkDf(rows)

\* the user uploads a statement
Upload(column) ==
    /\ pc = "idle"
    /\ upload = <<>>
    /\ enable_online' = enable_online
    /\ clicked' = 0
    /\ new_cat' = None
    /\ RunTop(column)
    /\ UNCHANGED <<lastOp, clean, learned, confirmed>>

\* the user ticks or unticks "Enable online auto-categorization"
ToggleOnline ==
    /\ pc = "idle"
    /\ enable_online' = ~enable_online
    /\ clicked' = 0
    /\ new_cat' = None
    /\ RunTop(upload)
    /\ UNCHANGED <<lastOp, clean, learned, confirmed>>

\* the user clicks Rerun
Rerun ==
    /\ pc = "idle"
    /\ enable_online' = enable_online
    /\ clicked' = 0
    /\ new_cat' = None
    /\ RunTop(upload)
    /\ UNCHANGED <<lastOp, clean, learned, confirmed>>

\* the user picks a category in expander k and clicks its "Save mapping"
ClickSave(k, choice) ==
    /\ pc = "idle"
    /\ k \in 1..Len(unk_df)
    /\ Len(map_df) < MaxRecords
    /\ enable_online' = enable_online
    /\ clicked' = k
    /\ new_cat' = choice
    /\ confirmed' = [merchant |-> unk_df[k].merchant, category |-> choice]
    /\ RunTop(upload)
    /\ UNCHANGED <<lastOp, clean, learned>>

\* line 61 for the row at hand, then the next row of unknown_idx or line 63
EndStep2Guess(g, failed) ==
    LET rows == [df EXCEPT ![cursor].category = g,
                           ![cursor].online = IF failed THEN "failed" ELSE "answered"]
    IN  /\ df' = rows
        /\ osm_failed' = FALSE
        /\ osm_cat' = None
        /\ IF NextUnknown(df, cursor) # 0
           THEN /\ pc' = "online"
                /\ cursor' = NextUnknown(df, cursor)
                /\ unk_df' = <<>>
           ELSE /\ pc' = AfterStep2(rows)
                /\ cursor' = 1
                /\ unk_df' = UnkDf(rows)

\* a button that is true in every run
AlwaysPressed(i) == TRUE

\* line 76: st.button("Save mapping", key=f"save_{i}") is true in the run its
\* click fired
ButtonPressed(i) == clicked = i

\* lines 71-78 for the expander at hand, then the next expander or line 79
EndExpander(g) ==
    LET m == unk_df[cursor].merchant
    IN  /\ guess' = g
        /\ osm_failed' = FALSE
        /\ osm_cat' = None
        /\ IF ButtonPressed(cursor)
           THEN /\ map_df' = Learn(map_df, m, new_cat)
                /\ disk' = Save(map_df')
                /\ learned' = Remember(learned, m, new_cat)
                /\ saved' = [merchant |-> m, category |-> new_cat]
           ELSE UNCHANGED <<disk, map_df, learned, saved>>
        /\ IF cursor < Len(unk_df)
           THEN pc' = "manual" /\ cursor' = cursor + 1
           ELSE pc' = "rest" /\ cursor' = 0

\* an exception leaves web.guess: the script run ends there
Crash ==
    /\ pc' = "crashed"
    /\ UNCHANGED <<disk, map_df, df, cursor, unk_df, guess, learned, osm_failed, osm_cat,
                   saved>>

\* line 60, one row of unknown_idx: web.guess(m) asks OpenStreetMap
Step2Osm(answer) ==
    /\ pc = "online"
    /\ guess_calls' = [guess_calls EXCEPT ![df[cursor].merchant] = @ + 1]
    /\ IF FromOsm(answer) = Raise THEN Crash
       ELSE IF ~AsksSecond(FromOsm(answer))
       THEN /\ EndStep2Guess(FromOsm(answer), FALSE)
            /\ UNCHANGED <<disk, map_df, guess, learned, saved>>
       ELSE /\ pc' = "online_wikipedia"
            /\ osm_failed' = (answer.kind \in OsmFailures)
            /\ osm_cat' = FromOsm(answer)
            /\ UNCHANGED <<disk, map_df, df, cursor, unk_df, guess, learned, saved>>
    /\ UNCHANGED <<lastOp, clean, upload, enable_online, clicked, new_cat, edited,
                   confirmed>>

\* line 60, the same call: OpenStreetMap gave nothing, web.guess asks Wikipedia
Step2Wikipedia(answer) ==
    /\ pc = "online_wikipedia"
    /\ IF FromWikipedia(answer) = Raise THEN Crash
       ELSE /\ EndStep2Guess(FromWikipedia(answer),
                             osm_failed /\ answer.kind \in WikiFailures)
            /\ UNCHANGED <<disk, map_df, guess, learned, saved>>
    /\ UNCHANGED <<lastOp, clean, upload, enable_online, clicked, new_cat, guess_calls,
                   edited, confirmed>>

\* lines 68-78, one expander of unk_df with enable_online unticked
ExpanderOffline ==
    /\ pc = "manual"
    /\ ~SuggestionEnabled(enable_online)
    /\ EndExpander(None)
    /\ UNCHANGED <<lastOp, clean, upload, enable_online, df, unk_df, clicked,
                   new_cat, guess_calls, edited, confirmed>>

\* lines 68-78, one expander of unk_df: web.guess(m) asks OpenStreetMap
ExpanderOsm(answer) ==
    /\ pc = "manual"
    /\ SuggestionEnabled(enable_online)
    /\ guess_calls' = [guess_calls EXCEPT ![unk_df[cursor].merchant] = @ + 1]
    /\ IF FromOsm(answer) = Raise THEN Crash
       ELSE IF ~AsksSecond(FromOsm(answer))
       THEN /\ EndExpander(FromOsm(answer))
            /\ UNCHANGED <<df, unk_df>>
       ELSE /\ pc' = "manual_wikipedia"
            /\ osm_failed' = (answer.kind \in OsmFailures)
            /\ osm_cat' = FromOsm(answer)
            /\ UNCHANGED <<disk, map_df, df, cursor, unk_df, guess, learned, saved>>
    /\ UNCHANGED <<lastOp, clean, upload, enable_online, clicked, new_cat, edited,
                   confirmed>>

\* lines 68-78, the same call: OpenStreetMap gave nothing, web.guess asks Wikipedia
ExpanderWikipedia(answer) ==
    /\ pc = "manual_wikipedia"
    /\ IF FromWikipedia(answer) = Raise THEN Crash
       ELSE /\ EndExpander(FromWikipedia(answer))
            /\ UNCHANGED <<df, unk_df>>
    /\ UNCHANGED <<lastOp, clean, upload, enable_online, clicked, new_cat, guess_calls,
                   edited, confirmed>>

\* line 109: edited["category"].fillna("Uncategorized")
FillNa(rows) ==
    [i \in 1..Len(rows) |->
        IF rows[i].category = None THEN "Uncategorized" ELSE rows[i].category]

\* lines 83-120: the table, the totals, the chart and the download
Rest ==
    /\ pc = "rest"
    /\ pc' = "idle"
    /\ edited' = FillNa(df)
    /\ confirmed' = NoCall
    /\ saved' = NoCall
    /\ cursor' = 0
    /\ clicked' = 0
    /\ new_cat' = None
    /\ UNCHANGED <<memVars, upload, enable_online, df, unk_df, guess, guess_calls,
                   learned, osm_failed, osm_cat>>

Next ==
    \/ \E column \in Statements : Upload(column)
    \/ ToggleOnline
    \/ Rerun
    \/ \E k \in 1..MaxRows, choice \in UserPicks : ClickSave(k, choice)
    \/ \E answer \in OsmAnswers : Step2Osm(answer)
    \/ \E answer \in WikiAnswers : Step2Wikipedia(answer)
    \/ ExpanderOffline
    \/ \E answer \in OsmAnswers : ExpanderOsm(answer)
    \/ \E answer \in WikiAnswers : ExpanderWikipedia(answer)
    \/ Rest

Spec == Init /\ [][Next]_vars

(***************************************************************************)
(* Properties of the MerchantCategorizer (checked under SpecMemory).       *)
(***************************************************************************)
KeyCount(frame, key) ==
    Cardinality({i \in 1..Len(frame) : frame[i].merchant_norm = key})

Pairs(frame) == {<<frame[i].merchant, frame[i].category>> : i \in 1..Len(frame)}

\* C1: after learn(m, c), exactly one stored record has the key
\* upper(trim(m)), and a second learn(m, c) leaves the frame and the file as
\* the first call left them.
C1_LearnIdempotent ==
    lastOp.op = "learn" =>
        /\ KeyCount(map_df, NormKey(lastOp.merchant)) = 1
        /\ Learn(map_df, lastOp.merchant, lastOp.category) = map_df
        /\ Save(Learn(map_df, lastOp.merchant, lastOp.category)) = disk

\* C2: no two stored records have the same merchant key.
C2_KeysUnique ==
    \A i, j \in 1..Len(map_df) :
        map_df[i].merchant_norm = map_df[j].merchant_norm => i = j

\* C6: reloading a store that learn wrote from empty, one record per key,
\* yields the same number of records with the same (merchant, category) pairs.
C6_RoundTrip ==
    [][(clean /\ lastOp'.op = "load") =>
           /\ Len(map_df') = Len(map_df)
           /\ Pairs(map_df') = Pairs(map_df)]_vars

\* the highest score of a description against the stored keys
TopScore(frame, description) ==
    CHOOSE v \in {Score(NormKey(description), frame[i].merchant_norm) : i \in 1..Len(frame)} :
        \A i \in 1..Len(frame) : Score(NormKey(description), frame[i].merchant_norm) <= v

\* C8: get_category returns the category of a highest-scoring record when
\* that score is at least 85, None when it is below 85, and None without
\* scoring anything on an empty store.
C8_LookupBest ==
    lastOp.op = "lookup" =>
        IF map_df = <<>>
        THEN lastOp.result = None /\ lastOp.scored = 0
        ELSE /\ TopScore(map_df, lastOp.merchant) >= 85 =>
                    \E i \in 1..Len(map_df) :
                        /\ Score(NormKey(lastOp.merchant), map_df[i].merchant_norm)
                               = TopScore(map_df, lastOp.merchant)
                        /\ lastOp.result = map_df[i].category
             /\ TopScore(map_df, lastOp.merchant) < 85 => lastOp.result = None

\* a lookup whose best record is not the first one above the threshold
C8_Witness ==
    /\ lastOp.op = "lookup"
    /\ lastOp.result # None
    /\ Len(map_df) = 2
    /\ map_df[1].category # map_df[2].category
    /\ Score(NormKey(lastOp.merchant), map_df[1].merchant_norm) >= 85
    /\ Score(NormKey(lastOp.merchant), map_df[1].merchant_norm)
           < Score(NormKey(lastOp.merchant), map_df[2].merchant_norm)

\* two descriptions that differ only in letter case and outer whitespace
SameBarCaseAndSpace(d, e) == Lower(Strip(Spelling[d])) = Lower(Strip(Spelling[e]))

\* C9: descriptions that differ only in letter case and in leading and
\* trailing whitespace get the same answer from get_category.
C9_NormalizationInvariance ==
    lastOp.op = "lookup" =>
        \A d \in Merchants :
            SameBarCaseAndSpace(d, lastOp.merchant) =>
                GetCategory(map_df, d) = lastOp.result

\* a lookup that hit, of a description that has a differently written twin
C9_Witness ==
    /\ lastOp.op = "lookup"
    /\ lastOp.result # None
    /\ \E d \in Merchants : d # lastOp.merchant /\ SameBarCaseAndSpace(d, lastOp.merchant)

(***************************************************************************)
(* Properties of the script runs (checked under Spec).                     *)
(***************************************************************************)
RunOver == pc = "idle" /\ df # <<>>

Step2Over == pc \in {"manual", "manual_wikipedia", "rest", "idle"}

Prompted(m) == \E k \in 1..Len(unk_df) : unk_df[k].merchant = m

Occurrences(m) == Cardinality({i \in 1..Len(df) : df[i].merchant = m})

\* C3: once learn(m, c) is saved, a later run over the same statement
\* resolves m in step 1 to c, as long as the key of m is not learned again.
C3_LearnedResolves ==
    [][(pc = "idle" /\ pc' # "idle" /\ upload' = upload) =>
           \A i \in 1..Len(df') :
               df'[i].merchant \in DOMAIN learned =>
                   df'[i].memory = learned[df'[i].merchant]]_vars

\* C4: a merchant that occurs in several rows and is not in the saved map
\* gets at most one web.guess call and at most one expander in a run.
C4_OneLookupPerMerchant ==
    \A i \in 1..Len(df) :
        (Occurrences(df[i].merchant) >= 2 /\ df[i].memory = None) =>
            /\ guess_calls[df[i].merchant] <= 1
            /\ Cardinality({k \in 1..Len(unk_df) :
                                unk_df[k].merchant = df[i].merchant}) <= 1

\* C5: at the end of a run, rows with the same merchant description carry
\* the same category (None standing for unresolved).
C5_SameCategory ==
    RunOver =>
        \A i, j \in 1..Len(df) :
            df[i].merchant = df[j].merchant => df[i].category = df[j].category

\* C7: when both sources fail, web.guess returns None, no exception leaves
\* it, and the merchant gets an expander of the manual section.
C7_GracefulDegradation ==
    /\ pc # "crashed"
    /\ \A i \in 1..Len(df) :
           df[i].online = "failed" =>
               /\ df[i].category = None
               /\ Step2Over => Prompted(df[i].merchant)

\* a finished run in which both sources failed for a row
C7_Witness ==
    /\ RunOver
    /\ \E i \in 1..Len(df) : df[i].online = "failed" /\ Prompted(df[i].merchant)

\* C10: with enable_online unticked a run calls web.guess for no merchant,
\* and every merchant the saved map misses gets an expander, without a
\* suggestion.
C10_OfflineNoGuess ==
    ~enable_online =>
        /\ \A m \in DOMAIN guess_calls : guess_calls[m] = 0
        /\ guess = None
        /\ \A i \in 1..Len(df) : df[i].online = "not_called"
        /\ Step2Over =>
               \A i \in 1..Len(df) :
                   df[i].memory = None =>
                       df[i].category = None /\ Prompted(df[i].merchant)

\* a finished offline run that rendered expanders
C10_Witness == ~enable_online /\ RunOver /\ unk_df # <<>>

\* C11: no record of the saved map has the category "Uncategorized", in
\* memory or in the file; the sentinel is only in the table shown and
\* exported.
C11_SentinelNeverStored ==
    /\ \A i \in 1..Len(map_df) : map_df[i].category # "Uncategorized"
    /\ disk.exists => \A i \in 1..Len(disk.rows) : disk.rows[i].category # "Uncategorized"
    /\ (pc \in {"manual", "manual_wikipedia"} /\ clicked # 0) => new_cat # "Uncategorized"

\* a run that saved a mapping and showed another merchant as Uncategorized
C11_Witness ==
    /\ pc = "idle"
    /\ map_df # <<>>
    /\ learned # <<>>
    /\ \E i \in 1..Len(edited) : edited[i] = "Uncategorized"

AtOsm == pc \in {"online", "manual"}

AtWikipedia == pc \in {"online_wikipedia", "manual_wikipedia"}

\* C12 as stated: the sources are tried OpenStreetMap first, Wikipedia second,
\* and Wikipedia is not queried when OpenStreetMap yielded a text, whether or
\* not a keyword rule matches it.
C12_ShortCircuitOnText ==
    [][(~AtWikipedia /\ AtWikipedia') =>
           /\ AtOsm /\ guess_calls' # guess_calls
           /\ osm_failed']_vars

\* C12 amended: the sources are tried OpenStreetMap first, Wikipedia second,
\* Wikipedia is queried exactly when _from_osm returned no category, and a
\* call that does not go on to Wikipedia returns the category of
\* OpenStreetMap.
C12_ShortCircuitOnCategory ==
    [][/\ (~AtWikipedia /\ AtWikipedia') =>
              /\ AtOsm /\ guess_calls' # guess_calls
              /\ osm_cat' = None
       /\ (AtOsm /\ guess_calls' # guess_calls /\ ~AtWikipedia') =>
              IF pc = "online" THEN df'[cursor].category # None ELSE guess' # None]_vars

\* Wikipedia is being queried after OpenStreetMap yielded a text that no
\* rule matches
C12_Witness == AtWikipedia /\ ~osm_failed /\ osm_cat = None

\* C13: web.guess is called only for merchants the saved map missed, a
\* category from the saved map is never replaced by a guess, and a merchant
\* has an expander only when the saved map missed it and, with
\* enable_online ticked, a guess missed it too.
C13_MemoryFirst ==
    /\ \A i \in 1..Len(df) :
           df[i].memory # None =>
               /\ df[i].category = df[i].memory
               /\ df[i].online = "not_called"
               /\ guess_calls[df[i].merchant] = 0
    /\ \A k \in 1..Len(unk_df) :
           \E i \in 1..Len(df) :
               /\ df[i].merchant = unk_df[k].merchant
               /\ df[i].memory = None
               /\ df[i].category = None
               /\ enable_online => df[i].online # "not_called"

\* a finished run with one row resolved by the saved map and another one
\* that went to the guesser
C13_Witness ==
    /\ RunOver
    /\ \E i, j \in 1..Len(df) :
           /\ df[i].memory # None
           /\ df[j].memory = None
           /\ df[j].online # "not_called"

\* C14: when the user has saved a category in the expander of a merchant,
\* the run fired by the click calls learn with that merchant and that
\* category.
C14_ConfirmLearns ==
    (pc = "rest" /\ confirmed # NoCall) => saved = confirmed

\* the expander at hand calls cat.learn for the click that fired the run
LearnsNow ==
    /\ pc \in {"manual", "manual_wikipedia"}
    /\ clicked = cursor
    /\ map_df' = Learn(map_df, unk_df[cursor].merchant, new_cat)
    /\ disk' = Save(map_df')

\* C15: the file and the records in memory change only in a cat.learn call
\* fired by a "Save mapping" click, with the category of the selectbox;
\* the lookups of step 1 and the web.guess calls of step 2 and of the
\* expanders leave both as they are (a run starts from the records of the
\* file).
C15_OnlyLearnWrites ==
    [][/\ disk' # disk => LearnsNow
       /\ map_df' # map_df => (LearnsNow \/ (pc = "idle" /\ map_df' = LoadMap(disk).df))
       /\ guess_calls' # guess_calls =>
              (pc = "idle" \/ LearnsNow \/ UNCHANGED <<disk, map_df>>)]_vars

\* a run that called web.guess and then saved a mapping
C15_Witness ==
    /\ pc = "rest"
    /\ saved # NoCall
    /\ \E m \in DOMAIN guess_calls : guess_calls[m] > 0

(***************************************************************************)
(* Further properties of the MerchantCategorizer (checked under            *)
(* SpecMemory).                                                            *)
(***************************************************************************)
\* what learn(m, c) may change of a frame: the category of one record with
\* the key of m, or one new record at the end
LearnFrame(before, after, m, c) ==
    IF KeyExists(before, NormKey(m))
    THEN /\ Len(after) = Len(before)
         /\ \E i \in 1..Len(before) :
                /\ before[i].merchant_norm = NormKey(m)
                /\ after[i] = [before[i] EXCEPT !.category = c]
                /\ \A j \in 1..Len(before) : j # i => after[j] = before[j]
    ELSE after = Append(before, [merchant |-> m, category |-> c,
                                 merchant_norm |-> NormKey(m)])

\* C16: learn(m, c) on a key that is present changes the category of that
\* record to c and nothing else (count, merchant strings, order and every
\* other record stay); on an absent key it appends one record at the end.
C16_LearnFrame ==
    [][\A m \in Merchants, c \in LearnCategories :
           CallLearn(m, c) =>
               /\ LearnFrame(map_df, map_df', m, c)
               /\ disk' = File(ToCsv(map_df'))]_vars

\* C17: _load_map writes the file only when there is none, and then writes
\* the header with no records; a file that is there is left as it is,
\* whether pd.read_csv can read it or raises.
C17_LoadWrites ==
    [][Construct =>
           /\ ~disk.exists => disk' = File(<<>>) /\ map_df' = <<>>
           /\ disk.exists => disk' = disk
           /\ disk = Malformed => lastOp'.op = "load_raised"]_vars

\* _load_map has raised on a file it cannot read, and the file is as it was
C17_Witness == lastOp.op = "load_raised" /\ disk = Malformed

\* the records of a frame that reach the highest score for a description
TopRecords(frame, description) ==
    {i \in 1..Len(frame) :
        Score(NormKey(description), frame[i].merchant_norm) = TopScore(frame, description)}

\* C18: when several records tie for the highest score, and that score is
\* at least 85, get_category returns the category of the one that comes
\* first in the frame.
C18_TieBreakFirst ==
    (lastOp.op = "lookup" /\ map_df # <<>> /\ TopScore(map_df, lastOp.merchant) >= 85) =>
        \E i \in TopRecords(map_df, lastOp.merchant) :
            /\ \A j \in TopRecords(map_df, lastOp.merchant) : i <= j
            /\ lastOp.result = map_df[i].category

\* a lookup with two records of different keys and categories tied at the top
C18_Witness ==
    /\ lastOp.op = "lookup"
    /\ Len(map_df) = 2
    /\ TopRecords(map_df, lastOp.merchant) = {1, 2}
    /\ TopScore(map_df, lastOp.merchant) >= 85
    /\ map_df[1].merchant_norm # map_df[2].merchant_norm
    /\ map_df[1].category # map_df[2].category

(***************************************************************************)
(* Properties of the OnlineGuesser (checked under SpecGuesser).            *)
(***************************************************************************)
\* the rules whose pattern matches a text
Matching(text) ==
    {r \in 1..Len(KEYWORDS_TO_CATEGORY) : Search(KEYWORDS_TO_CATEGORY[r].pat, text)}

\* C19: the rule scan returns the category of the earliest rule of
\* KEYWORDS_TO_CATEGORY whose pattern matches the text, None when no rule
\* matches; the result depends on the text alone, so the same text gets the
\* same result in every call.
C19_FirstMatchWins ==
    (lastOp.op \in {"from_osm", "from_wikipedia"} /\ lastOp.category = "ok") =>
        IF Matching(lastOp.merchant) = {} THEN lastOp.result = None
        ELSE \E r \in Matching(lastOp.merchant) :
                 /\ \A q \in Matching(lastOp.merchant) : r <= q
                 /\ lastOp.result = KEYWORDS_TO_CATEGORY[r].cat

\* a text matching the rules of two categories, the keyword of the later
\* rule coming first in the text
C19_Witness ==
    /\ lastOp.op = "from_wikipedia"
    /\ lastOp.merchant = <<"pharmacy", "restaurant">>
    /\ Cardinality(Matching(lastOp.merchant)) = 2
    /\ lastOp.result = "Food & Drink"

====
